---------------------------- MODULE Spec2Model ----------------------------
(***************************************************************************)
(* FVlcMediaCallbacks (Source/VlcMedia/Private/Player/                     *)
(* VlcMediaCallbacks.cpp): the bridge between a libvlc media player's      *)
(* audio/video callbacks and the host's sample queues.                     *)
(*                                                                         *)
(* The bridge object's fields keep their source names.  The decoder side   *)
(* (which callbacks are registered with which player, where the decoder is *)
(* in its Lock/Unlock/Display cycle, the plane table and the picture       *)
(* handle it holds) and the allocator are modelled as far as the callbacks *)
(* act on them.  Time is in FTimespan ticks (100 ns).                      *)
(***************************************************************************)
EXTENDS Integers, Sequences, FiniteSets

VARIABLES
    Player,             \* FLibvlcMediaPlayer* the bridge is bound to
    Registered,         \* decoder side: per player, the callback sets held
    CurrentTime,        \* PlaybackClock, written by the consumer
    VideoPreviousTime,  \* last-lock timestamp
    AudioChannels, AudioSampleFormat, AudioSampleRate, AudioSampleSize,
    VideoBufferDim, VideoOutputDim, VideoBufferStride,
    VideoFrameDuration, VideoSampleFormat,
    AudioQueue,         \* Samples: audio track
    VideoQueue,         \* Samples: video track
    AudioSamplePool,    \* objects in the audio pool's free list
    VideoSamplePool,    \* objects in the video pool's free list
    pc,                 \* decoder's position in the video frame cycle
    Picture,            \* handle returned by Lock, passed to Unlock/Display
    Planes,             \* the plane-pointer table handed to Lock/Unlock
    Heap,               \* live FMemory::Malloc scratch blocks
    HeapError,          \* FMemory::Free was given a block that is not live
    LockLog,            \* decoder's record of its two latest Lock calls
    Fault,              \* the process has faulted in a callback
    last                \* the latest call: what it was given (for a lifecycle
                        \* call, what it found) and what it answered

bridge == <<Player, CurrentTime, VideoPreviousTime,
            AudioChannels, AudioSampleFormat, AudioSampleRate, AudioSampleSize,
            VideoBufferDim, VideoOutputDim, VideoBufferStride,
            VideoFrameDuration, VideoSampleFormat,
            AudioQueue, VideoQueue, AudioSamplePool, VideoSamplePool>>

audioFormat == <<AudioChannels, AudioSampleFormat, AudioSampleRate, AudioSampleSize>>

videoFormat == <<VideoBufferDim, VideoOutputDim, VideoBufferStride,
                 VideoFrameDuration, VideoSampleFormat>>

decoder == <<pc, Picture, Planes, LockLog>>

vars == <<bridge, Registered, decoder, Heap, HeapError, Fault, last>>

---------------------------------------------------------------------------
(* Bounds of the model *)

MaxClock == 1
MaxVideoQueue == 2
MaxAudioQueue == 2
MaxScratch == 2
LifeMaxClock == 1
LifeMaxQueue == 1

(* Program constants *)

MaxPlanes == 5
MaxChannels == 8
TimespanMinValue == -2147483647

Players == {"p1", "p2"}
nullptr == "nullptr"

CallbackSets == {"AudioFormat", "Audio", "VideoFormat", "Video"}

NullPtr == [kind |-> "null", addr |-> 0, size |-> 0]
ScratchPtr(a, n) == [kind |-> "scratch", addr |-> a, size |-> n]
BufferPtr(n) == [kind |-> "sample", addr |-> 0, size |-> n]

ZeroPlanes == [i \in 1..MaxPlanes |-> NullPtr]

IntPoint(x, y) == [X |-> x, Y |-> y]
ZeroValue == IntPoint(0, 0)

\* A frame handle is <<>> (null) or <<sample>>.
NullHandle == <<>>

NoCall == [op |-> "none"]

---------------------------------------------------------------------------
(* FVlcMediaCallbacks::FVlcMediaCallbacks *)

Init ==
    /\ Player = nullptr
    /\ Registered = [p \in Players |-> {}]
    /\ CurrentTime = 0
    /\ VideoPreviousTime = TimespanMinValue
    /\ AudioChannels = 0
    /\ AudioSampleFormat = "Int16"
    /\ AudioSampleRate = 0
    /\ AudioSampleSize = 0
    /\ VideoBufferDim = ZeroValue
    /\ VideoOutputDim = ZeroValue
    /\ VideoBufferStride = 0
    /\ VideoFrameDuration = 0
    /\ VideoSampleFormat = "CharAYUV"
    /\ AudioQueue = <<>>
    /\ VideoQueue = <<>>
    /\ AudioSamplePool = 0
    /\ VideoSamplePool = 0
    /\ pc = "Idle"
    /\ Picture = NullHandle
    /\ Planes = ZeroPlanes
    /\ Heap = {}
    /\ HeapError = FALSE
    /\ LockLog = <<>>
    /\ Fault = "none"
    /\ last = NoCall

---------------------------------------------------------------------------
(* Lifecycle: Initialize and Shutdown.  The decoder has quiesced the       *)
(* session's thread before either runs, so they occur between frame cycles.*)

\* The effect of Shutdown on the decoder's registrations, the pools and the
\* clock, as a function of the state it starts in.
ShutdownRegistered_Keep == Registered

ShutdownRegistered ==
    IF Player = nullptr THEN Registered
    ELSE [Registered EXCEPT ![Player] = {}]

ShutdownCalls ==
    IF Player = nullptr THEN <<>>
    ELSE << <<"AudioSetCallbacks", Player, nullptr>>,
            <<"AudioSetFormatCallbacks", Player, nullptr>>,
            <<"VideoSetCallbacks", Player, nullptr>>,
            <<"VideoSetFormatCallbacks", Player, nullptr>> >>

ShutdownPool(pool) == IF Player = nullptr THEN pool ELSE 0

ShutdownTime_Keep == CurrentTime

ShutdownTime == IF Player = nullptr THEN CurrentTime ELSE 0

Shutdown ==
    /\ pc = "Idle"
    /\ Fault = "none"
    /\ Registered' = ShutdownRegistered
    /\ AudioSamplePool' = ShutdownPool(AudioSamplePool)
    /\ VideoSamplePool' = ShutdownPool(VideoSamplePool)
    /\ CurrentTime' = ShutdownTime
    /\ Player' = nullptr
    /\ LockLog' = IF Player = nullptr THEN LockLog ELSE <<>>
    /\ last' = [op |-> "Shutdown", bound |-> Player, calls |-> ShutdownCalls,
                pooled |-> <<AudioSamplePool, VideoSamplePool>>,
                time |-> CurrentTime]
    /\ UNCHANGED <<VideoPreviousTime, audioFormat, videoFormat,
                   AudioQueue, VideoQueue, pc, Picture, Planes,
                   Heap, HeapError, Fault>>

InitializeCalls(InPlayer) ==
    << <<"AudioSetFormatCallbacks", InPlayer, "this">>,
       <<"AudioSetCallbacks", InPlayer, "this">>,
       <<"VideoSetFormatCallbacks", InPlayer, "this">>,
       <<"VideoSetCallbacks", InPlayer, "this">> >>

Initialize(InPlayer) ==
    /\ pc = "Idle"
    /\ Fault = "none"
    /\ Registered' = [ShutdownRegistered EXCEPT ![InPlayer] = CallbackSets]
    /\ AudioSamplePool' = ShutdownPool(AudioSamplePool)
    /\ VideoSamplePool' = ShutdownPool(VideoSamplePool)
    /\ CurrentTime' = ShutdownTime
    /\ Player' = InPlayer
    /\ LockLog' = <<>>
    /\ last' = [op |-> "Initialize", bound |-> Player,
                calls |-> ShutdownCalls \o InitializeCalls(InPlayer),
                pooled |-> <<AudioSamplePool, VideoSamplePool>>,
                time |-> CurrentTime]
    /\ UNCHANGED <<VideoPreviousTime, audioFormat, videoFormat,
                   AudioQueue, VideoQueue, pc, Picture, Planes,
                   Heap, HeapError, Fault>>

---------------------------------------------------------------------------
(* The consumer: advances PlaybackClock on its tick and drains the queues. *)

Tick ==
    /\ Fault = "none"
    /\ CurrentTime < MaxClock
    /\ CurrentTime' = CurrentTime + 1
    /\ UNCHANGED <<Player, VideoPreviousTime, audioFormat, videoFormat,
                   AudioQueue, VideoQueue, AudioSamplePool, VideoSamplePool,
                   Registered, decoder, Heap, HeapError, Fault, last>>

FetchVideo ==
    /\ Fault = "none"
    /\ VideoQueue # <<>>
    /\ VideoQueue' = Tail(VideoQueue)
    /\ VideoSamplePool' = VideoSamplePool + 1
    /\ UNCHANGED <<Player, CurrentTime, VideoPreviousTime, audioFormat,
                   videoFormat, AudioQueue, AudioSamplePool,
                   Registered, decoder, Heap, HeapError, Fault, last>>

---------------------------------------------------------------------------
(* FMemory::Malloc / FMemory::Free of the scratch buffer.  A request of    *)
(* zero bytes yields either a null pointer or a block with no writable     *)
(* byte, depending on the allocator the build links.                       *)

FreeAddr ==
    CHOOSE a \in 1..MaxScratch :
        /\ a \notin Heap
        /\ \A b \in 1..MaxScratch : b \notin Heap => a <= b

Malloc(size) ==
    IF size = 0 THEN {NullPtr, ScratchPtr(FreeAddr, 0)}
    ELSE {ScratchPtr(FreeAddr, size)}

HeapAfterMalloc(ptr) ==
    IF ptr.kind = "scratch" THEN Heap \cup {ptr.addr} ELSE Heap

---------------------------------------------------------------------------
(* Video path: Lock, Unlock, Display, in the order the decoder drives them *)

VideoSample(time) ==
    [Dim |-> VideoBufferDim, OutputDim |-> VideoOutputDim,
     Format |-> VideoSampleFormat, Stride |-> VideoBufferStride,
     Duration |-> VideoFrameDuration, Time |-> time, Mangled |-> FALSE]

ScratchSize == VideoBufferStride * VideoBufferDim.Y

\* The decoder's record of a Lock call: the clock value the call compared
\* with the marker (line 414) and the handle it returned.
LogLock(clock, handle) ==
    LET rec == [clock |-> clock, handle |-> handle]
    IN  IF LockLog = <<>> THEN <<rec>> ELSE <<LockLog[Len(LockLog)], rec>>

\* The call in progress returns handle.
LogReturn(handle) == [LockLog EXCEPT ![Len(LockLog)].handle = handle]

\* Mutant: the duplicate check is gone.
AlreadyProcessed_Never == FALSE

\* Lines 413-419: does this Lock skip the frame as already processed?
AlreadyProcessed == VideoPreviousTime = CurrentTime

\* Lines 406-419: zero the table, then the duplicate check.
StaticVideoLockCallback_Enter ==
    /\ pc = "Idle"
    /\ Fault = "none"
    /\ \E p \in Players : "Video" \in Registered[p]
    /\ Len(VideoQueue) < MaxVideoQueue
    /\ Cardinality(Heap) < MaxScratch
    /\ IF AlreadyProcessed
       THEN \E ptr \in Malloc(ScratchSize) :
                /\ Planes' = [ZeroPlanes EXCEPT ![1] = ptr]
                /\ Heap' = HeapAfterMalloc(ptr)
                /\ Picture' = NullHandle
                /\ pc' = "Locked"
                /\ LockLog' = LogLock(CurrentTime, "null")
                /\ last' = [op |-> "Lock", path |-> "duplicate"]
       ELSE /\ Planes' = ZeroPlanes
            /\ pc' = "LockAcquire"
            /\ LockLog' = LogLock(CurrentTime, "pending")
            /\ last' = [op |-> "LockEnter"]
            /\ UNCHANGED <<Heap, Picture>>
    /\ UNCHANGED <<bridge, Registered, HeapError, Fault>>

\* Mutant: a successful Lock leaves the marker as it was.
LockedTime_Stale == VideoPreviousTime

\* Line 448: the marker a successful Lock leaves.
LockedTime == CurrentTime

\* Lines 426-451: acquire and initialize a pooled sample.
StaticVideoLockCallback_Acquire(acquired, initialized) ==
    /\ pc = "LockAcquire"
    /\ Fault = "none"
    /\ pc' = "Locked"
    /\ VideoSamplePool' =
           IF acquired /\ VideoSamplePool > 0 THEN VideoSamplePool - 1
           ELSE VideoSamplePool
    /\ IF acquired /\ initialized
       THEN /\ VideoPreviousTime' = LockedTime
            /\ Planes' = [Planes EXCEPT ![1] = BufferPtr(ScratchSize)]
            /\ Picture' = <<VideoSample(0)>>
            /\ LockLog' = LogReturn("sample")
            /\ last' = [op |-> "Lock", path |-> "sample"]
            /\ UNCHANGED Heap
       ELSE \E ptr \in Malloc(ScratchSize) :
                /\ Planes' = [Planes EXCEPT ![1] = ptr]
                /\ Heap' = HeapAfterMalloc(ptr)
                /\ Picture' = NullHandle
                /\ LockLog' = LogReturn("null")
                /\ last' = [op |-> "Lock",
                            path |-> IF acquired THEN "initfail" ELSE "nopool"]
                /\ UNCHANGED VideoPreviousTime
    /\ UNCHANGED <<Player, CurrentTime, audioFormat, videoFormat,
                   AudioQueue, VideoQueue, AudioSamplePool,
                   Registered, HeapError, Fault>>

\* Mutant: Unlock never frees.
UnlockFrees_Never == FALSE

\* Line 568: does Unlock free plane[0]?
UnlockFrees == Picture = NullHandle /\ Planes[1] # NullPtr

StaticVideoUnlockCallback ==
    /\ pc = "Locked"
    /\ Fault = "none"
    /\ pc' = "Unlocked"
    /\ IF UnlockFrees
       THEN /\ Heap' = Heap \ {Planes[1].addr}
            /\ HeapError' = (HeapError \/ Planes[1].kind # "scratch"
                                       \/ Planes[1].addr \notin Heap)
            /\ last' = [op |-> "Unlock", freed |-> TRUE]
       ELSE /\ last' = [op |-> "Unlock", freed |-> FALSE]
            /\ UNCHANGED <<Heap, HeapError>>
    /\ UNCHANGED <<bridge, Registered, Picture, Planes, LockLog, Fault>>

\* Lines 356-393: the in-place channel re-mapping of a CharBGRA frame.
Mangle(sample) ==
    IF sample.Format = "CharBGRA" THEN [sample EXCEPT !.Mangled = TRUE]
    ELSE sample

\* Mutant: Display queues a sample whatever the handle.
DisplayedQueue_NoNullCheck(handle) ==
    Append(VideoQueue,
           IF handle = NullHandle THEN VideoSample(CurrentTime)
           ELSE Mangle([handle[1] EXCEPT !.Time = CurrentTime]))

\* Lines 346-402: what Display appends to the video queue for a handle.
DisplayedQueue(handle) ==
    IF handle = NullHandle THEN VideoQueue
    ELSE Append(VideoQueue, Mangle([handle[1] EXCEPT !.Time = CurrentTime]))

StaticVideoDisplayCallback ==
    /\ pc = "Unlocked"
    /\ Fault = "none"
    /\ pc' = "Idle"
    /\ VideoQueue' = DisplayedQueue(Picture)
    /\ Picture' = NullHandle
    /\ Planes' = ZeroPlanes
    /\ last' = [op |-> "Display", pushed |-> Picture # NullHandle]
    /\ UNCHANGED <<Player, CurrentTime, VideoPreviousTime, audioFormat,
                   videoFormat, AudioQueue, AudioSamplePool, VideoSamplePool,
                   Registered, Heap, HeapError, LockLog, Fault>>

---------------------------------------------------------------------------
(* FTimespan conversions (ticks of 100 ns) *)

FromMicroseconds(us) == us * 10

\* FromSeconds(1.0 / fps) for a frame rate in frames per second, fps # 0.
FrameDurationTicks(fps) ==
    IF fps > 0 THEN 10000000 \div fps ELSE 0 - (10000000 \div (0 - fps))

---------------------------------------------------------------------------
(* Audio path *)

\* Lines 272-276.
ClampChannels_Off(Channels) == Channels

ClampChannels(Channels) == IF Channels > MaxChannels THEN MaxChannels ELSE Channels

\* Lines 278-316: the accepted tag, sample format and bytes per sample.
AudioFormatFor_NoFallback(Format) ==
    IF Format = "S8  " THEN [Tag |-> Format, Format |-> "Int8", Size |-> 1]
    ELSE IF Format = "S32N" THEN [Tag |-> Format, Format |-> "Int32", Size |-> 4]
    ELSE IF Format = "FL32" THEN [Tag |-> Format, Format |-> "Float", Size |-> 4]
    ELSE IF Format = "FL64" THEN [Tag |-> Format, Format |-> "Double", Size |-> 8]
    ELSE IF Format = "U8  " THEN [Tag |-> "S8  ", Format |-> "Int8", Size |-> 1]
    ELSE [Tag |-> Format, Format |-> "Int16", Size |-> 2]

AudioFormatFor(Format) ==
    IF Format = "S8  " THEN [Tag |-> Format, Format |-> "Int8", Size |-> 1]
    ELSE IF Format = "S16N" THEN [Tag |-> Format, Format |-> "Int16", Size |-> 2]
    ELSE IF Format = "S32N" THEN [Tag |-> Format, Format |-> "Int32", Size |-> 4]
    ELSE IF Format = "FL32" THEN [Tag |-> Format, Format |-> "Float", Size |-> 4]
    ELSE IF Format = "FL64" THEN [Tag |-> Format, Format |-> "Double", Size |-> 8]
    ELSE IF Format = "U8  " THEN [Tag |-> "S8  ", Format |-> "Int8", Size |-> 1]
    ELSE [Tag |-> "S16N", Format |-> "Int16", Size |-> 2]

StaticAudioSetupCallback(Format, Rate, Channels) ==
    /\ Fault = "none"
    /\ \E p \in Players : {"AudioFormat", "Audio"} \subseteq Registered[p]
    /\ AudioSampleFormat' = AudioFormatFor(Format).Format
    /\ AudioSampleSize' = AudioFormatFor(Format).Size
    /\ AudioChannels' = ClampChannels(Channels)
    /\ AudioSampleRate' = Rate
    /\ last' = [op |-> "AudioSetup", Format |-> Format, Channels |-> Channels,
                Rate |-> Rate, outFormat |-> AudioFormatFor(Format).Tag,
                outChannels |-> ClampChannels(Channels), outRate |-> Rate,
                ret |-> 0]
    /\ UNCHANGED <<Player, CurrentTime, VideoPreviousTime, videoFormat,
                   AudioQueue, VideoQueue, AudioSamplePool, VideoSamplePool,
                   Registered, decoder, Heap, HeapError, Fault>>

\* 32-bit unsigned values are kept as two 16-bit limbs <<high, low>>.
Limb == 65536

\* Line 230: Count * 1000000 in unsigned 32-bit arithmetic, for a Count
\* below 2^31.  1000000 = 15 * 2^16 + 16960.
MicrosecondsProduct(Count) ==
    LET low  == (Count % Limb) * 16960
        high == (low \div Limb) + (Count % Limb) * 15
                    + (Count \div Limb) * 16960
    IN  <<high % Limb, low % Limb>>

\* Line 230: the unsigned quotient of a 32-bit value by a rate from 2 up
\* to 2^15 - 1.
Quotient32(value, rate) ==
    ((value[1] \div rate) * Limb)
        + ((((value[1] % rate) * Limb) + value[2]) \div rate)

\* Line 230.
AudioDuration(Count) ==
    FromMicroseconds(Quotient32(MicrosecondsProduct(Count), AudioSampleRate))

\* Line 231: the product is far from any integer limit for the counts
\* that occur here (below 2^26 with at most 8 bytes and 8 channels).
SamplesSize(Count) == Count * AudioSampleSize * AudioChannels

\* Line 240: the timestamp the sample is initialized with.
AudioTime_NoDelay(Delay) == CurrentTime

AudioTime(Delay) == CurrentTime + FromMicroseconds(Delay)

\* Lines 233-241: the sample as initialized.
AudioSample(Count, Delay, Duration) ==
    [Size |-> SamplesSize(Count), Count |-> Count, Channels |-> AudioChannels,
     Format |-> AudioSampleFormat, Rate |-> AudioSampleRate,
     Time |-> AudioTime(Delay), Duration |-> Duration]

\* Lines 233-244: the audio queue after the call.
AudioQueueAfter(sample, initialized) ==
    IF initialized THEN Append(AudioQueue, sample) ELSE AudioQueue

\* Lines 227-245: the pool's free list after the call.  AcquireShared takes
\* a pooled object or makes one; a sample that is not queued is released
\* back to the pool when the shared reference goes out of scope.
AudioPoolAfter(initialized) ==
    IF initialized
    THEN (IF AudioSamplePool > 0 THEN AudioSamplePool - 1 ELSE 0)
    ELSE (IF AudioSamplePool > 0 THEN AudioSamplePool ELSE 1)

\* The integer division of line 230 by a zero rate is undefined: the build
\* either traps or yields some quotient.
StaticAudioPlayCallback(Count, Delay, initialized, trap) ==
    /\ Fault = "none"
    /\ \E p \in Players : "Audio" \in Registered[p]
    /\ Len(AudioQueue) < MaxAudioQueue
    /\ IF AudioSampleRate = 0 /\ trap
       THEN /\ Fault' = "divide"
            /\ last' = [op |-> "AudioPlay", fault |-> TRUE]
            /\ UNCHANGED <<AudioQueue, AudioSamplePool>>
       ELSE /\ AudioQueue' = AudioQueueAfter(
                   AudioSample(Count, Delay,
                       IF AudioSampleRate = 0 THEN 0 ELSE AudioDuration(Count)),
                   initialized)
            /\ AudioSamplePool' = AudioPoolAfter(initialized)
            /\ last' = [op |-> "AudioPlay", fault |-> FALSE, Count |-> Count,
                        Delay |-> Delay, initialized |-> initialized,
                        clock |-> CurrentTime]
            /\ UNCHANGED Fault
    /\ UNCHANGED <<Player, CurrentTime, VideoPreviousTime, audioFormat,
                   videoFormat, VideoQueue, VideoSamplePool,
                   Registered, decoder, Heap, HeapError>>

FetchAudio ==
    /\ Fault = "none"
    /\ AudioQueue # <<>>
    /\ AudioQueue' = Tail(AudioQueue)
    /\ AudioSamplePool' = AudioSamplePool + 1
    /\ UNCHANGED <<Player, CurrentTime, VideoPreviousTime, audioFormat,
                   videoFormat, VideoQueue, VideoSamplePool,
                   Registered, decoder, Heap, HeapError, Fault, last>>

---------------------------------------------------------------------------
(* Video format negotiation *)

\* FCStringAnsi::Stricmp compares without regard to case.
ToUpperChar(c) ==
    CASE c = "a" -> "A" [] c = "b" -> "B" [] c = "c" -> "C" [] c = "d" -> "D"
      [] c = "h" -> "H" [] c = "i" -> "I" [] c = "n" -> "N" [] c = "r" -> "R"
      [] c = "u" -> "U" [] c = "v" -> "V" [] c = "y" -> "Y"
      [] OTHER -> c

Stricmp_Exact(a, b) == a = b

Stricmp(a, b) ==
    /\ Len(a) = Len(b)
    /\ \A i \in 1..Len(a) : ToUpperChar(a[i]) = ToUpperChar(b[i])

AYUV == <<"A", "Y", "U", "V">>
RV32 == <<"R", "V", "3", "2">>
UYVY == <<"U", "Y", "V", "Y">>
Y422 == <<"Y", "4", "2", "2">>
UYNV == <<"U", "Y", "N", "V">>
HDYC == <<"H", "D", "Y", "C">>
YUY2 == <<"Y", "U", "Y", "2">>
V422 == <<"V", "4", "2", "2">>
YUYV == <<"Y", "U", "Y", "V">>
YVYU == <<"Y", "V", "Y", "U">>

Align16_Off(x) == x

\* Align(x, 16)
Align16(x) == ((x + 15) \div 16) * 16

\* Lines 487-547: the result of matching the chroma tag, for buffer
\* dimensions Width x Height and the output dimensions already stored:
\* accepted or not, the tag and height reported back, and the format state.
ChromaSetup(Chroma, Width, Height, OutputDim, PlaneCount) ==
    LET native(fmt, bpp) ==
            [ok |-> TRUE, Chroma |-> Chroma, Height |-> Height,
             Dim |-> IntPoint(Width, Height), Format |-> fmt,
             Stride |-> Width * bpp]
    IN  IF Stricmp(Chroma, AYUV) THEN native("CharAYUV", 4)
        ELSE IF Stricmp(Chroma, RV32) THEN native("CharBGRA", 4)
        ELSE IF \/ Stricmp(Chroma, UYVY) \/ Stricmp(Chroma, Y422)
                \/ Stricmp(Chroma, UYNV) \/ Stricmp(Chroma, HDYC)
             THEN native("CharUYVY", 2)
        ELSE IF \/ Stricmp(Chroma, YUY2) \/ Stricmp(Chroma, V422)
                \/ Stricmp(Chroma, YUYV)
             THEN native("CharYUY2", 2)
        ELSE IF Stricmp(Chroma, YVYU) THEN native("CharYVYU", 2)
        ELSE IF PlaneCount = 0
             THEN [ok |-> FALSE, Chroma |-> Chroma, Height |-> Height,
                   Dim |-> IntPoint(Width, Height),
                   Format |-> VideoSampleFormat, Stride |-> VideoBufferStride]
        ELSE IF PlaneCount > 1
             THEN [ok |-> TRUE, Chroma |-> YUY2,
                   Height |-> Align16(OutputDim.Y),
                   Dim |-> IntPoint(Align16(OutputDim.X) \div 2,
                                    Align16(OutputDim.Y)),
                   Format |-> "CharYUY2",
                   Stride |-> (Align16(OutputDim.X) \div 2) * 4]
        ELSE [ok |-> TRUE, Chroma |-> RV32, Height |-> Height,
              Dim |-> OutputDim, Format |-> "CharBGRA",
              Stride |-> OutputDim.X * 4]

\* Line 550: 1.0 / fps is infinite for fps = 0, and its conversion to ticks
\* undefined; the build yields some value.
UndefinedDurations == {TimespanMinValue, 0}

FrameDurations(Fps) ==
    IF Fps = 0 THEN UndefinedDurations ELSE {FrameDurationTicks(Fps)}

\* Lines 490-515: does the tag match a row of the chroma table?
ChromaInTable(Chroma) ==
    \E tag \in {AYUV, RV32, UYVY, Y422, UYNV, HDYC, YUY2, V422, YUYV, YVYU} :
        Stricmp(Chroma, tag)

\* Line 523: FVlc::FourccGetChromaDescription has no description for the
\* tag and returns a null pointer.
NoDescription == -1

\* Line 525 reads PlaneCount through the description pointer.  Through a
\* null pointer the read is undefined: the build traps, or goes on with
\* whatever it read.
PlaneCountsRead(PlaneCount) ==
    IF PlaneCount = NoDescription THEN {NoDescription, 0, 1, 3}
    ELSE {PlaneCount}

\* size: the outcome of FVlc::VideoGetSize, [ok, X, Y].
StaticVideoSetupCallback(Chroma, Width, Height, size, PlaneCount, Fps) ==
    /\ pc = "Idle"
    /\ Fault = "none"
    /\ \E p \in Players : {"VideoFormat", "Video"} \subseteq Registered[p]
    /\ IF ~size.ok
       THEN /\ VideoBufferDim' = ZeroValue
            /\ VideoOutputDim' = ZeroValue
            /\ VideoBufferStride' = 0
            /\ last' = [op |-> "VideoSetup", ret |-> 0, why |-> "size",
                        size |-> size, Fps |-> Fps]
            /\ UNCHANGED <<VideoSampleFormat, VideoFrameDuration, Fault>>
       ELSE IF size.X <= 0 \/ size.Y <= 0
       THEN /\ VideoOutputDim' = IntPoint(size.X, size.Y)
            /\ last' = [op |-> "VideoSetup", ret |-> 0, why |-> "dim",
                        size |-> size, Fps |-> Fps]
            /\ UNCHANGED <<VideoBufferDim, VideoBufferStride,
                           VideoSampleFormat, VideoFrameDuration, Fault>>
       ELSE \E n \in (IF ChromaInTable(Chroma) THEN {PlaneCount}
                      ELSE PlaneCountsRead(PlaneCount)) :
            IF n = NoDescription /\ ~ChromaInTable(Chroma)
            THEN /\ VideoOutputDim' = IntPoint(size.X, size.Y)
                 /\ VideoBufferDim' = IntPoint(Width, Height)
                 /\ Fault' = "deref"
                 /\ last' = [op |-> "VideoSetup", ret |-> 0, why |-> "fault",
                             size |-> size, Fps |-> Fps, Chroma |-> Chroma,
                             PlaneCount |-> PlaneCount]
                 /\ UNCHANGED <<VideoBufferStride, VideoSampleFormat,
                                VideoFrameDuration>>
            ELSE
            LET r == ChromaSetup(Chroma, Width, Height,
                                 IntPoint(size.X, size.Y), n)
            IN  /\ VideoOutputDim' = IntPoint(size.X, size.Y)
                /\ VideoBufferDim' = r.Dim
                /\ VideoSampleFormat' = r.Format
                /\ VideoBufferStride' = r.Stride
                /\ UNCHANGED Fault
                /\ IF r.ok
                   THEN \E d \in FrameDurations(Fps) :
                        /\ VideoFrameDuration' = d
                        /\ last' = [op |-> "VideoSetup", ret |-> 1,
                                    why |-> "accepted", size |-> size,
                                    Chroma |-> Chroma, Width |-> Width,
                                    Height |-> Height, Fps |-> Fps,
                                    PlaneCount |-> PlaneCount,
                                    outChroma |-> r.Chroma,
                                    outHeight |-> r.Height,
                                    Lines |-> r.Dim.Y, Pitches |-> r.Stride]
                   ELSE /\ last' = [op |-> "VideoSetup", ret |-> 0,
                                    why |-> "planes", size |-> size,
                                    Fps |-> Fps, Chroma |-> Chroma,
                                    PlaneCount |-> PlaneCount]
                        /\ UNCHANGED VideoFrameDuration
    /\ UNCHANGED <<Player, CurrentTime, VideoPreviousTime, audioFormat,
                   AudioQueue, VideoQueue, AudioSamplePool, VideoSamplePool,
                   Registered, decoder, Heap, HeapError>>

---------------------------------------------------------------------------
(* The callbacks entered with a null Opaque, i.e. without a bridge.        *)

\* Lines 258-263: returns -1 before touching the tag, rate or channels.
StaticAudioSetupCallback_NullOpaque ==
    /\ Fault = "none"
    /\ last' = [op |-> "AudioSetup", opaque |-> nullptr, ret |-> -1]
    /\ UNCHANGED <<bridge, Registered, decoder, Heap, HeapError, Fault>>

\* Lines 210-215.
StaticAudioPlayCallback_NullOpaque ==
    /\ Fault = "none"
    /\ last' = [op |-> "AudioPlay", opaque |-> nullptr]
    /\ UNCHANGED <<bridge, Registered, decoder, Heap, HeapError, Fault>>

\* Lines 458-463: returns 0.
StaticVideoSetupCallback_NullOpaque ==
    /\ Fault = "none"
    /\ pc = "Idle"
    /\ last' = [op |-> "VideoSetup", opaque |-> nullptr, ret |-> 0]
    /\ UNCHANGED <<bridge, Registered, decoder, Heap, HeapError, Fault>>

\* Lines 408-414: check(Callbacks != nullptr) stops a build that compiles
\* checks in; a build without them zeroes the plane table and then reads
\* VideoPreviousTime through the null pointer.
LockNullOpaqueFaults == {"check", "deref"}

StaticVideoLockCallback_NullOpaque ==
    /\ Fault = "none"
    /\ pc = "Idle"
    /\ \E f \in LockNullOpaqueFaults :
          /\ Fault' = f
          /\ Planes' = IF f = "check" THEN Planes ELSE ZeroPlanes
    /\ last' = [op |-> "Lock", opaque |-> nullptr]
    /\ UNCHANGED <<bridge, Registered, pc, Picture, LockLog, Heap, HeapError>>

\* Lines 560-571: Opaque is used for the log line only; the scratch buffer
\* is freed as in any Unlock.
StaticVideoUnlockCallback_NullOpaque ==
    /\ pc = "Locked"
    /\ Fault = "none"
    /\ pc' = "Unlocked"
    /\ IF UnlockFrees
       THEN /\ Heap' = Heap \ {Planes[1].addr}
            /\ HeapError' = (HeapError \/ Planes[1].kind # "scratch"
                                       \/ Planes[1].addr \notin Heap)
       ELSE UNCHANGED <<Heap, HeapError>>
    /\ last' = [op |-> "Unlock", opaque |-> nullptr, freed |-> UnlockFrees]
    /\ UNCHANGED <<bridge, Registered, Picture, Planes, LockLog, Fault>>

\* Lines 331-339: returns before the sample is stamped or queued.
StaticVideoDisplayCallback_NullOpaque ==
    /\ pc = "Unlocked"
    /\ Fault = "none"
    /\ pc' = "Idle"
    /\ Picture' = NullHandle
    /\ Planes' = ZeroPlanes
    /\ last' = [op |-> "Display", opaque |-> nullptr, pushed |-> FALSE]
    /\ UNCHANGED <<bridge, Registered, Heap, HeapError, LockLog, Fault>>

NullOpaqueCall ==
    \/ StaticAudioSetupCallback_NullOpaque
    \/ StaticAudioPlayCallback_NullOpaque
    \/ StaticVideoSetupCallback_NullOpaque
    \/ StaticVideoLockCallback_NullOpaque
    \/ StaticVideoUnlockCallback_NullOpaque
    \/ StaticVideoDisplayCallback_NullOpaque

---------------------------------------------------------------------------
(* The actions, with the inputs the decoder and the sample objects supply  *)

Lifecycle(P) ==
    \/ Shutdown
    \/ \E p \in P : Initialize(p)

VideoCycle ==
    \/ StaticVideoLockCallback_Enter
    \/ \E a, i \in BOOLEAN : StaticVideoLockCallback_Acquire(a, i)
    \/ StaticVideoUnlockCallback
    \/ StaticVideoDisplayCallback

GetSizeFails == [ok |-> FALSE, X |-> 0, Y |-> 0]
GetSize(x, y) == [ok |-> TRUE, X |-> x, Y |-> y]

\* One accepted negotiation (RV32, 4 x 2) and one the size query fails.
VideoSetup ==
    \E s \in {GetSizeFails, GetSize(4, 2)} :
        StaticVideoSetupCallback(RV32, 4, 2, s, 1, 25)

AudioSetup ==
    \E f \in {"S16N", "U8  "} : StaticAudioSetupCallback(f, 8000, 9)

AudioPlay ==
    \E d \in {-1, 2}, i, t \in BOOLEAN : StaticAudioPlayCallback(3, d, i, t)

\* The whole bridge.
Next ==
    \/ Lifecycle(Players)
    \/ Tick
    \/ FetchVideo
    \/ FetchAudio
    \/ VideoCycle
    \/ VideoSetup
    \/ AudioSetup
    \/ AudioPlay
    \/ NullOpaqueCall

Spec == Init /\ [][Next]_vars

\* The video side: one session, the consumer, negotiation and frame cycles.
VideoNext ==
    Lifecycle({"p1"}) \/ Tick \/ FetchVideo \/ VideoCycle \/ VideoSetup

VideoSpec == Init /\ [][VideoNext]_vars

\* The audio side: one session bound once, the consumer, negotiation and
\* delivery, with the video thread delivering frames alongside; the clock
\* and the queues are kept within LifeMaxClock and LifeMaxQueue.
AudioNext ==
    /\ \/ (Player = nullptr /\ Initialize("p1"))
       \/ Tick
       \/ FetchAudio
       \/ StaticAudioSetupCallback("S16N", 8000, 2)
       \/ \E i, t \in BOOLEAN : StaticAudioPlayCallback(3, 2, i, t)
       \/ StaticVideoLockCallback_Enter
       \/ StaticVideoLockCallback_Acquire(TRUE, TRUE)
       \/ StaticVideoUnlockCallback
       \/ StaticVideoDisplayCallback
    /\ CurrentTime' <= LifeMaxClock
    /\ Len(VideoQueue') <= LifeMaxQueue
    /\ Len(AudioQueue') <= LifeMaxQueue

AudioSpec == Init /\ [][AudioNext]_vars

\* Audio negotiation over every row of the format table and an unknown tag,
\* with deliveries in the negotiated format.
AudioTags == {"S8  ", "S16N", "S32N", "FL32", "FL64", "U8  ", "MPGA", "s16n"}

ProposedChannels == {2, 8, 9}

AudioFormatNext ==
    /\ \/ Lifecycle({"p1"})
       \/ FetchAudio
       \/ \E f \in AudioTags, c \in ProposedChannels :
              StaticAudioSetupCallback(f, 8000, c)
       \/ \E t \in BOOLEAN : StaticAudioPlayCallback(3, 2, TRUE, t)
    /\ Len(AudioQueue') <= LifeMaxQueue

AudioFormatSpec == Init /\ [][AudioFormatNext]_vars

\* Video negotiation over every row of the chroma table in either case,
\* unknown tags with each kind of description, good and bad output sizes
\* and frame rates.
ProposedChromas ==
    {AYUV, RV32, UYVY, Y422, UYNV, HDYC, YUY2, V422, YUYV, YVYU,
     <<"a", "y", "u", "v">>, <<"y", "u", "y", "2">>}

UnknownChroma == <<"I", "4", "2", "0">>

QueriedSizes ==
    {GetSizeFails, GetSize(0, 480), GetSize(20, -1), GetSize(20, 10)}

PlaneCounts == {NoDescription, 0, 1, 3}

FrameRates == {-1, 0, 30}

VideoFormatNext ==
    \/ Lifecycle({"p1"})
    \/ \E c \in ProposedChromas, s \in QueriedSizes, f \in FrameRates :
            StaticVideoSetupCallback(c, 640, 480, s, 1, f)
    \/ \E s \in QueriedSizes, n \in PlaneCounts, f \in FrameRates :
            StaticVideoSetupCallback(UnknownChroma, 640, 480, s, n, f)

VideoFormatSpec == Init /\ [][VideoFormatNext]_vars

\* One session, with the decoder also entering the callbacks without a
\* bridge.
NullOpaqueNext ==
    \/ (Player = nullptr /\ Initialize("p1"))
    \/ Tick
    \/ FetchVideo
    \/ StaticVideoLockCallback_Enter
    \/ \E a, i \in BOOLEAN : StaticVideoLockCallback_Acquire(a, i)
    \/ StaticVideoUnlockCallback
    \/ StaticVideoDisplayCallback
    \/ StaticAudioSetupCallback_NullOpaque
    \/ StaticAudioPlayCallback_NullOpaque
    \/ StaticVideoSetupCallback_NullOpaque
    \/ StaticVideoLockCallback_NullOpaque
    \/ StaticVideoUnlockCallback_NullOpaque
    \/ StaticVideoDisplayCallback_NullOpaque

NullOpaqueSpec == Init /\ [][NullOpaqueNext]_vars

\* Audio delivery of small and large blocks, before and after a
\* negotiation at 8000 Hz.
SampleCounts == {3, 4294, 4295, 5000}

AudioMathNext ==
    /\ \/ (Player = nullptr /\ Initialize("p1"))
       \/ FetchAudio
       \/ StaticAudioSetupCallback("S16N", 8000, 2)
       \/ \E n \in SampleCounts, i, t \in BOOLEAN :
              StaticAudioPlayCallback(n, 2, i, t)
    /\ Len(AudioQueue') <= LifeMaxQueue

AudioMathSpec == Init /\ [][AudioMathNext]_vars

\* One session bound once: the consumer's clock ticking between and inside
\* the frame cycles of the video thread.
ClockNext ==
    \/ (Player = nullptr /\ Initialize("p1"))
    \/ Tick
    \/ FetchVideo
    \/ VideoCycle

ClockSpec == Init /\ [][ClockNext]_vars

\* Sessions coming and going, with both producers filling the pools; the
\* clock and the queues are kept within LifeMaxClock and LifeMaxQueue.
LifeNext ==
    /\ \/ Lifecycle(Players)
       \/ Tick
       \/ FetchVideo
       \/ VideoCycle
       \/ StaticAudioSetupCallback("U8  ", 8000, 9)
       \/ \E t \in BOOLEAN : StaticAudioPlayCallback(3, 2, FALSE, t)
    /\ CurrentTime' <= LifeMaxClock
    /\ Len(VideoQueue') <= LifeMaxQueue

LifeSpec == Init /\ [][LifeNext]_vars

---------------------------------------------------------------------------
(* Properties of the video frame cycle, checked under VideoSpec            *)

\* C1: the video queue grows only in Display, by exactly one sample, and
\* only for a frame whose Lock returned a sample; Display of a frame whose
\* Lock returned null changes no bridge state.
C1_OnePushPerLockedFrame ==
    [][ /\ (pc = "Unlocked" /\ pc' = "Idle") =>
             IF LockLog[Len(LockLog)].handle = "sample"
             THEN /\ Len(VideoQueue') = Len(VideoQueue) + 1
                  /\ SubSeq(VideoQueue', 1, Len(VideoQueue)) = VideoQueue
             ELSE /\ Picture = NullHandle
                  /\ UNCHANGED bridge
        /\ Len(VideoQueue') > Len(VideoQueue) =>
             (pc = "Unlocked" /\ pc' = "Idle" /\ Picture # NullHandle)
      ]_vars

\* A discarded frame followed by a displayed one: the queue holds the two
\* frames displayed so far and nothing for the discarded one.
C1_Witness ==
    /\ pc = "Idle"
    /\ last.op = "Display"
    /\ last.pushed
    /\ Len(LockLog) = 2
    /\ LockLog[1].handle = "null"
    /\ LockLog[2].handle = "sample"
    /\ Len(VideoQueue) = 2

\* C2: Lock returns a sample exactly when the marker differs from the clock
\* and both the pool acquire and the sample initialization succeed; then the
\* marker becomes the clock value and plane[0] is the sample's buffer;
\* otherwise the marker is left as it was.
C2_LockHandle ==
    [][ /\ (pc = "Idle" /\ pc' # "Idle") =>
             /\ UNCHANGED VideoPreviousTime
             /\ IF VideoPreviousTime = CurrentTime
                THEN pc' = "Locked" /\ Picture' = NullHandle
                ELSE pc' = "LockAcquire"
        /\ \A a, i \in BOOLEAN :
             StaticVideoLockCallback_Acquire(a, i) =>
               /\ VideoPreviousTime # LockLog[Len(LockLog)].clock
               /\ IF a /\ i
                  THEN /\ Picture' # NullHandle
                       /\ VideoPreviousTime' = CurrentTime
                       /\ Planes'[1].kind = "sample"
                  ELSE /\ Picture' = NullHandle
                       /\ UNCHANGED VideoPreviousTime
      ]_vars

\* A Lock has returned a sample at a clock value past the previous marker.
C2_Witness ==
    /\ pc = "Locked"
    /\ Picture # NullHandle
    /\ Planes[1].kind = "sample"
    /\ Len(LockLog) = 2
    /\ LockLog[1].handle = "sample"
    /\ LockLog[1].clock < LockLog[2].clock
    /\ VideoPreviousTime = CurrentTime
    /\ CurrentTime = LockLog[2].clock

\* Two Lock calls of one session under one unchanged clock value.
TwoLocksSameClock ==
    /\ pc = "Locked"
    /\ Len(LockLog) = 2
    /\ LockLog[1].clock = LockLog[2].clock
    /\ CurrentTime = LockLog[2].clock

\* C3 as stated: Lock called twice with an unchanged PlaybackClock value
\* yields a null handle both times and never advances the marker.
C3_BothNull ==
    TwoLocksSameClock =>
        /\ LockLog[1].handle = "null"
        /\ LockLog[2].handle = "null"

\* C3 as amended: of two Locks under one unchanged clock value, once the
\* first has returned a sample the second yields a null handle and leaves
\* the marker at that clock value.
C3_SecondNull ==
    (TwoLocksSameClock /\ LockLog[1].handle = "sample") =>
        /\ LockLog[2].handle = "null"
        /\ Picture = NullHandle
        /\ VideoPreviousTime = LockLog[1].clock

C3_Witness ==
    /\ TwoLocksSameClock
    /\ LockLog[1].handle = "sample"
    /\ LockLog[2].handle = "null"
    /\ last.op = "Lock"
    /\ last.path = "duplicate"
    /\ CurrentTime > 0

\* C4: a scratch buffer exists only between a Lock that returned null and
\* the Unlock of the same frame, which frees it once; no block is freed
\* twice or left allocated, and Unlock of a frame with a sample frees
\* nothing.
C4_ScratchFreedOnce ==
    /\ ~HeapError
    /\ pc # "Locked" => Heap = {}
    /\ pc = "Locked" =>
         /\ Heap = (IF Planes[1].kind = "scratch" THEN {Planes[1].addr} ELSE {})
         /\ Planes[1].kind = "scratch" => Picture = NullHandle
    /\ (pc = "Unlocked" /\ last.op = "Unlock") =>
         (last.freed <=> (Picture = NullHandle /\ Planes[1] # NullPtr))

\* Unlock has just freed the scratch buffer of a discarded frame.
C4_Witness ==
    /\ pc = "Unlocked"
    /\ last.op = "Unlock"
    /\ last.freed
    /\ Picture = NullHandle
    /\ Planes[1].kind = "scratch"
    /\ Planes[1].size > 0
    /\ Heap = {}

\* C5: on return from every Lock, plane[0] is a non-null writable buffer
\* and every other entry of the plane table is zero.
C5_ValidPlanes ==
    pc = "Locked" =>
        /\ Planes[1] # NullPtr
        /\ Planes[1].size > 0
        /\ \A k \in 2..MaxPlanes : Planes[k] = NullPtr

---------------------------------------------------------------------------
(* Properties of the lifecycle, checked under LifeSpec                     *)

\* C6: Shutdown on an unbound bridge changes no bridge state and makes no
\* decoder call; Shutdown on a bound bridge clears the four registrations
\* of the bound session with four null-handler calls, empties both pools,
\* sets the clock to zero and unbinds.  The bridge is unbound after every
\* Shutdown, so a second Shutdown in a row changes nothing.
C6_ShutdownContract ==
    [][ Shutdown =>
          /\ Player' = nullptr
          /\ IF Player = nullptr
             THEN /\ UNCHANGED <<bridge, Registered>>
                  /\ last'.calls = <<>>
             ELSE /\ Registered' = [Registered EXCEPT ![Player] = {}]
                  /\ Len(last'.calls) = 4
                  /\ \A i \in 1..4 : /\ last'.calls[i][2] = Player
                                     /\ last'.calls[i][3] = nullptr
                  /\ {last'.calls[i][1] : i \in 1..4} =
                       {"AudioSetCallbacks", "AudioSetFormatCallbacks",
                        "VideoSetCallbacks", "VideoSetFormatCallbacks"}
                  /\ AudioSamplePool' = 0
                  /\ VideoSamplePool' = 0
                  /\ CurrentTime' = 0
                  /\ UNCHANGED <<VideoPreviousTime, audioFormat, videoFormat,
                                 AudioQueue, VideoQueue>>
          /\ last.op = "Shutdown" => UNCHANGED <<bridge, Registered>>
      ]_vars

\* Shutdown has just unbound a session whose pools both held samples and
\* whose clock had advanced.
C6_Witness ==
    /\ last.op = "Shutdown"
    /\ last.bound # nullptr
    /\ last.pooled[1] > 0
    /\ last.pooled[2] > 0
    /\ last.time > 0
    /\ Len(last.calls) = 4
    /\ Player = nullptr
    /\ AudioSamplePool = 0
    /\ VideoSamplePool = 0
    /\ CurrentTime = 0
    /\ \A p \in Players : Registered[p] = {}

\* C7: only the session the bridge is bound to holds registrations, and it
\* holds all four; Initialize on a bound bridge first clears the four
\* registrations of the old session and then makes the four registering
\* calls on the new one; after Shutdown no session holds a registration.
C7_SingleRegistration ==
    /\ \A p \in Players :
         Registered[p] # {} => (p = Player /\ Registered[p] = CallbackSets)
    /\ Player # nullptr => Registered[Player] = CallbackSets
    /\ last.op = "Shutdown" => \A p \in Players : Registered[p] = {}
    /\ last.op = "Initialize" =>
         LET n == Len(last.calls)
         IN  /\ n = (IF last.bound = nullptr THEN 4 ELSE 8)
             /\ \A i \in 1..(n - 4) : /\ last.calls[i][2] = last.bound
                                      /\ last.calls[i][3] = nullptr
             /\ \A i \in (n - 3)..n : /\ last.calls[i][2] = Player
                                      /\ last.calls[i][3] = "this"
             /\ {last.calls[i][1] : i \in (n - 3)..n} =
                  {"AudioSetCallbacks", "AudioSetFormatCallbacks",
                   "VideoSetCallbacks", "VideoSetFormatCallbacks"}

\* Initialize moved the bridge from session p1 to session p2.
C7_Witness ==
    /\ last.op = "Initialize"
    /\ last.bound = "p1"
    /\ Player = "p2"
    /\ Registered["p1"] = {}
    /\ Registered["p2"] = CallbackSets
    /\ Len(last.calls) = 8

---------------------------------------------------------------------------
(* Properties of audio delivery, checked under AudioSpec                   *)

\* C8: a delivery that returns adds exactly one sample to the tail of the
\* audio queue when the sample's initialization succeeds, stamped with the
\* clock read during the call plus the delay (microseconds, in ticks); when
\* initialization fails the queue is unchanged and the acquired sample is
\* back in the pool.  No audio callback changes the video queue.
C8_AudioDeliver ==
    [][ /\ \A n \in {3}, d \in {2}, i, t \in BOOLEAN :
             (StaticAudioPlayCallback(n, d, i, t) /\ Fault' = "none") =>
                /\ IF i
                   THEN /\ Len(AudioQueue') = Len(AudioQueue) + 1
                        /\ SubSeq(AudioQueue', 1, Len(AudioQueue)) = AudioQueue
                        /\ AudioQueue'[Len(AudioQueue')].Time =
                             CurrentTime + 10 * d
                        /\ AudioSamplePool' =
                             (IF AudioSamplePool = 0 THEN 0
                              ELSE AudioSamplePool - 1)
                   ELSE /\ AudioQueue' = AudioQueue
                        /\ AudioSamplePool' >= 1
                        /\ AudioSamplePool' >= AudioSamplePool
                /\ UNCHANGED <<VideoQueue, VideoSamplePool>>
        /\ (\E f \in {"S16N"}, r \in {8000}, c \in {2} :
                StaticAudioSetupCallback(f, r, c)) =>
             UNCHANGED <<VideoQueue, VideoSamplePool, AudioQueue,
                         AudioSamplePool>>
        /\ Len(AudioQueue') > Len(AudioQueue) =>
             \E t \in BOOLEAN : StaticAudioPlayCallback(3, 2, TRUE, t)
      ]_vars

\* A delivery at a clock value past zero has queued its sample while the
\* video queue holds a frame.
C8_Witness ==
    /\ last.op = "AudioPlay"
    /\ ~last.fault
    /\ last.initialized
    /\ last.clock > 0
    /\ Len(AudioQueue) = 1
    /\ AudioQueue[1].Time = last.clock + 20
    /\ VideoQueue # <<>>

---------------------------------------------------------------------------
(* Properties of audio negotiation, checked under AudioFormatSpec          *)

\* C9: every negotiation returns 0 and stores the table's pair for the
\* proposed tag: the five supported tags are kept, U8 is rewritten to S8
\* and any other tag to S16N.  The stored format and byte size are a pair
\* of the table in every state that follows a negotiation.
C9_AudioTable ==
    LET Table == { <<"S8  ", "S8  ", "Int8", 1>>,
                   <<"S16N", "S16N", "Int16", 2>>,
                   <<"S32N", "S32N", "Int32", 4>>,
                   <<"FL32", "FL32", "Float", 4>>,
                   <<"FL64", "FL64", "Double", 8>>,
                   <<"U8  ", "S8  ", "Int8", 1>> }
        Supported == {row[1] : row \in Table}
        Pairs == {<<row[3], row[4]>> : row \in Table}
    IN  /\ last.op = "AudioSetup" =>
              /\ last.ret = 0
              /\ IF last.Format \in Supported
                 THEN <<last.Format, last.outFormat,
                        AudioSampleFormat, AudioSampleSize>> \in Table
                 ELSE <<last.outFormat, AudioSampleFormat, AudioSampleSize>> =
                        <<"S16N", "Int16", 2>>
        /\ AudioSampleRate # 0 => <<AudioSampleFormat, AudioSampleSize>> \in Pairs

\* An unknown tag has just been negotiated down to S16N.
C9_Witness ==
    /\ last.op = "AudioSetup"
    /\ last.Format = "MPGA"
    /\ last.outFormat = "S16N"
    /\ AudioSampleFormat = "Int16"
    /\ AudioSampleSize = 2

\* C10: a negotiation reports and stores min(proposed channels, 8); the
\* stored channel count never exceeds 8 and neither does the channel count
\* of any queued audio sample.
C10_ChannelClamp ==
    /\ last.op = "AudioSetup" =>
          /\ last.outChannels = (IF last.Channels < 8 THEN last.Channels ELSE 8)
          /\ AudioChannels = last.outChannels
    /\ AudioChannels <= 8
    /\ \A k \in 1..Len(AudioQueue) : AudioQueue[k].Channels <= 8

\* Nine channels were proposed, eight stored, and a sample delivered since
\* carries eight.
C10_Witness ==
    /\ last.op = "AudioPlay"
    /\ ~last.fault
    /\ AudioChannels = 8
    /\ Len(AudioQueue) > 0
    /\ AudioQueue[Len(AudioQueue)].Channels = 8
    /\ AudioQueue[Len(AudioQueue)].Size = 3 * AudioSampleSize * 8

---------------------------------------------------------------------------
(* Properties of video negotiation, checked under VideoFormatSpec          *)

\* C11: a negotiation whose size query fails, or yields a dimension that
\* is not positive, returns 0 and leaves the buffer and output dimensions
\* at zero.
C11_RejectResets ==
    (/\ last.op = "VideoSetup"
     /\ (~last.size.ok \/ last.size.X <= 0 \/ last.size.Y <= 0)) =>
        /\ last.ret = 0
        /\ VideoBufferDim = ZeroValue
        /\ VideoOutputDim = ZeroValue

\* C12: a negotiation for which the decoder reports a frame rate that is
\* not positive returns 0 and reports no pitch and no line count, whatever
\* the chroma tag and the geometry.
C12_RejectsBadFps ==
    (last.op = "VideoSetup" /\ last.Fps <= 0) =>
        /\ last.ret = 0
        /\ "Lines" \notin DOMAIN last
        /\ "Pitches" \notin DOMAIN last

\* C13: for a tag outside the table with positive output dimensions and a
\* chroma description: no plane rejects; several planes force YUY2 with a
\* buffer of half the 16-aligned output width by the 16-aligned output
\* height; one plane forces RV32 (packed BGRA) with the buffer at the
\* output dimensions.  The tag reported back is the forced one.
C13_ForcedFormats ==
    LET UpTo16(x) == CHOOSE a \in x..(x + 15) : a % 16 = 0
    IN  (/\ last.op = "VideoSetup"
         /\ last.size.ok /\ last.size.X > 0 /\ last.size.Y > 0
         /\ last.Chroma = UnknownChroma
         /\ last.PlaneCount # NoDescription) =>
            IF last.PlaneCount = 0 THEN last.ret = 0
            ELSE IF last.PlaneCount > 1
            THEN /\ last.ret = 1
                 /\ last.outChroma = YUY2
                 /\ VideoBufferDim.X = UpTo16(last.size.X) \div 2
                 /\ VideoBufferDim.Y = UpTo16(last.size.Y)
                 /\ VideoSampleFormat = "CharYUY2"
            ELSE /\ last.ret = 1
                 /\ last.outChroma = RV32
                 /\ VideoBufferDim = IntPoint(last.size.X, last.size.Y)
                 /\ VideoOutputDim = VideoBufferDim
                 /\ VideoSampleFormat = "CharBGRA"

\* A three-plane tag has been renegotiated to YUY2 for a 20 x 10 output.
C13_Witness ==
    /\ last.op = "VideoSetup"
    /\ last.ret = 1
    /\ last.Chroma = UnknownChroma
    /\ last.PlaneCount = 3
    /\ last.size = GetSize(20, 10)
    /\ last.outChroma = YUY2
    /\ VideoBufferDim = IntPoint(16, 16)
    /\ VideoOutputDim = IntPoint(20, 10)

\* C14: a tag of the chroma table, in either case, with positive output
\* dimensions and a positive frame rate is accepted: the buffer takes the
\* proposed width and height, the format is the row's, the stride is the
\* width times 4 (AYUV, RV32) or times 2 (the packed 4:2:2 tags), and the
\* decoder is told Pitches[0] = stride and Lines[0] = height.
C14_TableRows ==
    LET Rows == { <<AYUV, "CharAYUV", 4>>, <<RV32, "CharBGRA", 4>>,
                  <<UYVY, "CharUYVY", 2>>, <<Y422, "CharUYVY", 2>>,
                  <<UYNV, "CharUYVY", 2>>, <<HDYC, "CharUYVY", 2>>,
                  <<YUY2, "CharYUY2", 2>>, <<V422, "CharYUY2", 2>>,
                  <<YUYV, "CharYUY2", 2>>, <<YVYU, "CharYVYU", 2>>,
                  << <<"a", "y", "u", "v">>, "CharAYUV", 4>>,
                  << <<"y", "u", "y", "2">>, "CharYUY2", 2>> }
    IN  \A row \in Rows :
          (/\ last.op = "VideoSetup"
           /\ last.size.ok /\ last.size.X > 0 /\ last.size.Y > 0
           /\ last.Fps > 0
           /\ last.Chroma = row[1]) =>
              /\ last.ret = 1
              /\ last.outChroma = last.Chroma
              /\ VideoBufferDim = IntPoint(last.Width, last.Height)
              /\ VideoSampleFormat = row[2]
              /\ VideoBufferStride = last.Width * row[3]
              /\ last.Pitches = VideoBufferStride
              /\ last.Lines = last.Height

\* The lower-case tag yuy2 at 640 x 480 and 30 frames per second: stride
\* 1280, 480 lines, a frame every 333333 ticks.
C14_Witness ==
    /\ last.op = "VideoSetup"
    /\ last.ret = 1
    /\ last.Chroma = <<"y", "u", "y", "2">>
    /\ last.Width = 640
    /\ last.Height = 480
    /\ last.Fps = 30
    /\ VideoSampleFormat = "CharYUY2"
    /\ VideoBufferStride = 1280
    /\ last.Pitches = 1280
    /\ last.Lines = 480
    /\ VideoFrameDuration = 333333

\* C16: after every accepted negotiation the stored stride is the stored
\* buffer width times the bytes per pixel of the stored sample format (4
\* for CharAYUV and CharBGRA, 2 for the packed 4:2:2 formats), and the
\* pitch reported to the decoder is that stride.
C16_StrideConsistent ==
    LET BytesPerPixel ==
            IF VideoSampleFormat \in {"CharAYUV", "CharBGRA"} THEN 4 ELSE 2
    IN  (last.op = "VideoSetup" /\ last.ret = 1) =>
            /\ VideoBufferStride = VideoBufferDim.X * BytesPerPixel
            /\ last.Pitches = VideoBufferStride

---------------------------------------------------------------------------
(* Properties of the callbacks without a bridge, under NullOpaqueSpec      *)

\* C15: a callback entered with a null bridge context returns without
\* changing any bridge state, pushing to a queue or faulting.
C15_NullContextBenign ==
    [][ NullOpaqueCall =>
          /\ UNCHANGED bridge
          /\ Fault' = "none"
      ]_vars

---------------------------------------------------------------------------
(* Properties of the audio arithmetic, checked under AudioMathSpec         *)

\* C17: no delivery faults on a zero sample rate, and every sample queued
\* after a negotiation carries the duration floor(count * 1000000 / rate)
\* microseconds (in ticks) and the byte size count * bytes * channels.
C17_ExactArithmetic ==
    LET Micros(n, r) ==
            (((n * 1000) \div r) * 1000) + ((((n * 1000) % r) * 1000) \div r)
        Bytes(f) == CASE f = "Int8" -> 1 [] f = "Int16" -> 2
                      [] f = "Int32" -> 4 [] f = "Float" -> 4
                      [] f = "Double" -> 8
    IN  /\ Fault # "divide"
        /\ \A k \in 1..Len(AudioQueue) :
              AudioQueue[k].Rate # 0 =>
                 /\ AudioQueue[k].Duration =
                       10 * Micros(AudioQueue[k].Count, AudioQueue[k].Rate)
                 /\ AudioQueue[k].Size =
                       AudioQueue[k].Count * Bytes(AudioQueue[k].Format)
                            * AudioQueue[k].Channels

---------------------------------------------------------------------------
(* Properties of frame timestamps within one session, under ClockSpec      *)

\* C18: a sample that Display queues carries the clock value read at that
\* Display, and no two samples in the video queue of one session carry the
\* same presentation time.
C18_DistinctTimestamps ==
    [][ /\ Len(VideoQueue') > Len(VideoQueue) =>
              VideoQueue'[Len(VideoQueue')].Time = CurrentTime
        /\ \A i, j \in 1..Len(VideoQueue') :
              i # j => VideoQueue'[i].Time # VideoQueue'[j].Time
      ]_vars

\* C19: a sample that Lock acquires is returned as the frame handle or is
\* back among the pool's free samples when Lock returns; a handle that
\* Display receives ends up in the video queue.
C19_SamplesAccounted ==
    [][ /\ \A i \in BOOLEAN :
              StaticVideoLockCallback_Acquire(TRUE, i) =>
                 IF i THEN Picture' # NullHandle
                 ELSE /\ Picture' = NullHandle
                      /\ VideoSamplePool' =
                            (IF VideoSamplePool = 0 THEN 1
                             ELSE VideoSamplePool)
        /\ (StaticVideoDisplayCallback /\ Picture # NullHandle) =>
              Len(VideoQueue') = Len(VideoQueue) + 1
      ]_vars

---------------------------------------------------------------------------
(* Properties of the marker across sessions, checked under LifeSpec        *)

\* C20: the first Lock after an Initialize is never discarded as already
\* processed, whatever the previous session left in the marker; with the
\* acquire and the initialization succeeding it returns a sample.
C20_FirstLockOfSession ==
    [][ /\ (StaticVideoLockCallback_Enter /\ LockLog = <<>>) =>
              pc' = "LockAcquire"
        /\ (StaticVideoLockCallback_Acquire(TRUE, TRUE) /\ Len(LockLog) = 1) =>
              Picture' # NullHandle
      ]_vars

===========================================================================
